---- MODULE Spec2Model ----
(***************************************************************************)
(* Model of backend/app.py: the admission-controlled job queue, the worker *)
(* pool, the history pruner and the start-up / shutdown handlers.          *)
(*                                                                         *)
(* Everything runs on one asyncio event loop, so a step of the model is    *)
(* the code a coroutine executes between two suspension points.            *)
(*   - enqueue_scrape never suspends: job_queue is unbounded, so           *)
(*     `await job_queue.put(...)` completes without yielding.              *)
(*   - worker_loop suspends in `await job_queue.get()` only while the      *)
(*     queue is empty, and in `await scrape_as_json(...)`.                 *)
(*   - stop_workers suspends in `await asyncio.gather(...)`.               *)
(* A worker that leaves a job and finds the queue non-empty takes the next *)
(* payload in the same step, as get() does not suspend then.               *)
(*                                                                         *)
(* The Extractor is cooperative: a task cancelled while it awaits          *)
(* scrape_as_json sees CancelledError come out of that call                *)
(* (collect_raw_data catches no BaseException).  The shutdown handler is   *)
(* run by one caller at a time.  No action of Spec advances the clock:     *)
(* under Spec the timestamps only tell a field that is set from one that   *)
(* is None.                                                                *)
(*                                                                         *)
(* Specifications:                                                         *)
(*   Spec            the service, every configuration, every request       *)
(*   SpecClock       the service with its clock advancing                  *)
(*   SpecStatus      the service with GET /api/system at any moment        *)
(*   SpecSequential  one job at a time, with GET /api/jobs/{id}            *)
(*   SpecFair        the service under the scheduling of the event loop    *)
(*   SpecLive        SpecFair with workers resumed and calls returning     *)
(***************************************************************************)
EXTENDS Integers, Sequences, FiniteSets, TLC

\* ---- bound of the model -------------------------------------------------
MaxJobs == 3            \* number of submissions that are accepted

\* ---- configurations the model is run for ----------------------------------
WorkerCounts == {1, 2}      \* SCRAPER_MAX_CONCURRENCY (at least 1)
HistoryLimits == {0, 1, 2}  \* SCRAPER_MAX_HISTORY (0 disables pruning)
QueueLimits == {0, 1}       \* SCRAPER_QUEUE_LIMIT (0 disables the check)

VARIABLES
    MAX_WORKERS,        \* configuration, fixed at import time
    MAX_HISTORY,
    QUEUE_LIMIT,
    job_queue,          \* asyncio.Queue: the payloads waiting, oldest first
    unfinished_tasks,   \* asyncio.Queue._unfinished_tasks
    jobs,               \* job id -> record
    job_history,        \* job ids in submission order
    workers,            \* the worker tasks
    stopping,           \* stop_workers is suspended in gather
    now,                \* the clock read by _now_iso
    nextId,             \* the next fresh job id (uuid4 never repeats)
    resp,               \* what the HTTP handler of this step answered
    lastPrune,          \* what _prune_history did in this step
    lastExit            \* how a worker left a job in this step

vars == << MAX_WORKERS, MAX_HISTORY, QUEUE_LIMIT, job_queue, unfinished_tasks,
           jobs, job_history, workers, stopping, now, nextId, resp,
           lastPrune, lastExit >>

config == << MAX_WORKERS, MAX_HISTORY, QUEUE_LIMIT >>

\* ---- values ---------------------------------------------------------------
NoneInt == -1                   \* Python None in a numeric field
NoneStr == "<None>"             \* Python None in a string field
NoneText == << "<None>" >>      \* Python None as a request field
Terminal == {"succeeded", "failed", "cancelled"}
Active == {"queued", "running"}

\* Request fields are sequences of characters.
Whitespace == {" "}
Email == << " ", "a" >>
Password == << "p" >>
Nickname == << "n", " " >>

\* The request bodies submitted: <<email, password, excludeNickname>>.
Requests ==
    { << Email, Password, Nickname >>,
      << Email, << " " >>, Nickname >>,
      << NoneText, Password, Nickname >>,
      << Email, << >>, Nickname >>,
      << Email, Password, << " " >> >> }

\* The Extractor (scrape_as_json) returns an opaque value or raises.
ExtractorResults == {"json"}
ExtractorFailures == {"auth failed"}

\* str.strip(): drop leading and trailing whitespace.
RECURSIVE LStrip(_)
LStrip(s) ==
    IF s # << >> /\ Head(s) \in Whitespace THEN LStrip(Tail(s)) ELSE s

RECURSIVE RStrip(_)
RStrip(s) ==
    IF s # << >> /\ s[Len(s)] \in Whitespace
    THEN RStrip(SubSeq(s, 1, Len(s) - 1))
    ELSE s

strip(s) == RStrip(LStrip(s))

\* `value or ""`
OrEmpty(s) == IF s = NoneText THEN << >> ELSE s

\* _now_iso(): the current time.
now_iso == now

\* ---- asyncio.Queue ----------------------------------------------------------
qsize(q) == Len(q)

\* Queue.task_done(): ValueError when called more often than put().
task_done(u) ==
    IF u <= 0
    THEN [raised |-> TRUE, unfinished |-> u]
    ELSE [raised |-> FALSE, unfinished |-> u - 1]

\* put that pushes the item twice.
put_Twice(q, item) == Append(Append(q, item), item)

\* put that places the item at the head of the queue.
put_Front(q, item) == << item >> \o q

\* Queue.put(item) on an unbounded queue: the item goes to the tail.
put(q, item) == Append(q, item)

\* get_nowait that hands the oldest payload out and leaves it in the queue.
get_nowait_Peek(q) == q

\* Queue.get_nowait(): the queue without its first item.
get_nowait(q) == Tail(q)

\* ---- records ----------------------------------------------------------------
NoRecord ==
    [ status |-> "none", submittedAt |-> NoneInt, startedAt |-> NoneInt,
      finishedAt |-> NoneInt, result |-> NoneStr, error |-> NoneStr,
      queueSizeOnEnqueue |-> NoneInt, assignedWorker |-> NoneInt,
      queueSizeWhenStarted |-> NoneInt, durationSeconds |-> NoneInt,
      lastUpdated |-> NoneInt ]

\* NewRecord with the depth taken after the push instead of before it.
NewRecord_DepthAfterPush(submitted_at, pending_jobs) ==
    [ NoRecord EXCEPT !.status = "queued",
                      !.submittedAt = submitted_at,
                      !.queueSizeOnEnqueue = pending_jobs + 1 ]

NewRecord(submitted_at, pending_jobs) ==
    [ NoRecord EXCEPT !.status = "queued",
                      !.submittedAt = submitted_at,
                      !.queueSizeOnEnqueue = pending_jobs ]

JobPayload(job_id, email, password, exclude_nickname) ==
    [ job_id |-> job_id, email |-> email, password |-> password,
      exclude_nickname |-> exclude_nickname ]

\* The pruner pops the id from history and leaves the record in the Store.
Without_Kept(js, id) == js

Without(js, id) == [ k \in DOMAIN js \ {id} |-> js[k] ]

NoPrune == [ called |-> FALSE, evicted |-> << >> ]
NoExit == [ job_id |-> 0, record |-> NoRecord, task_done_calls |-> 0,
            raised |-> "none" ]
NoResp == [ op |-> "none", code |-> 0, jobId |-> 0, status |-> "none",
            submittedAt |-> NoneInt, queueSize |-> NoneInt,
            maxConcurrency |-> NoneInt ]


\* ---- History Pruner --------------------------------------------------------
\* prune_loop without the test that the oldest record is terminal.
RECURSIVE prune_loop_AnyStatus(_, _, _)
prune_loop_AnyStatus(js, hist, ev) ==
    IF Len(hist) > MAX_HISTORY
    THEN LET oldest_id == hist[1]
         IN IF oldest_id \in DOMAIN js
            THEN prune_loop_AnyStatus(Without(js, oldest_id), Tail(hist),
                            Append(ev, [ id |-> oldest_id,
                                         status |-> js[oldest_id].status,
                                         length |-> Len(hist) ]))
            ELSE [ jobs |-> js, job_history |-> hist, evicted |-> ev ]
    ELSE [ jobs |-> js, job_history |-> hist, evicted |-> ev ]

\* prune_loop with `if` in place of `while`: at most one eviction per call.
prune_loop_Once(js, hist, ev) ==
    IF Len(hist) > MAX_HISTORY
    THEN LET oldest_id == hist[1]
         IN IF oldest_id \in DOMAIN js /\ js[oldest_id].status \in Terminal
            THEN [ jobs |-> Without(js, oldest_id), job_history |-> Tail(hist),
                   evicted |-> Append(ev, [ id |-> oldest_id,
                                            status |-> js[oldest_id].status,
                                            length |-> Len(hist) ]) ]
            ELSE [ jobs |-> js, job_history |-> hist, evicted |-> ev ]
    ELSE [ jobs |-> js, job_history |-> hist, evicted |-> ev ]

\* The while loop of _prune_history; ev collects what it evicts.
RECURSIVE prune_loop(_, _, _)
prune_loop(js, hist, ev) ==
    IF Len(hist) > MAX_HISTORY
    THEN LET oldest_id == hist[1]
         IN IF oldest_id \in DOMAIN js /\ js[oldest_id].status \in Terminal
            THEN prune_loop(Without(js, oldest_id), Tail(hist),
                            Append(ev, [ id |-> oldest_id,
                                         status |-> js[oldest_id].status,
                                         length |-> Len(hist) ]))
            ELSE [ jobs |-> js, job_history |-> hist, evicted |-> ev ]
    ELSE [ jobs |-> js, job_history |-> hist, evicted |-> ev ]

\* _prune_history that never evicts.
_prune_history_Never(js, hist) ==
    [ jobs |-> js, job_history |-> hist, evicted |-> << >> ]

_prune_history(js, hist) ==
    IF MAX_HISTORY <= 0
    THEN [ jobs |-> js, job_history |-> hist, evicted |-> << >> ]
    ELSE prune_loop(js, hist, << >>)

\* ---- Worker ----------------------------------------------------------------
NewTask(index) ==
    [ index |-> index, state |-> "get", must_cancel |-> FALSE, job_id |-> 0 ]

\* The task has ended (its coroutine returned or raised); a pending
\* cancellation request has been delivered.
ended(task) ==
    [task EXCEPT !.state = "done", !.job_id = 0, !.must_cancel = FALSE]

\* round3 that cuts the sub-millisecond part off.
round3_Floor(d) == (d \div 1000) * 1000

\* round(seconds, 3) on a difference of timestamps; the clock counts
\* microseconds and so does durationSeconds.
round3(d) == ((d + 500) \div 1000) * 1000

\* worker_loop from `await job_queue.get()` with an item available (or none)
\* up to the next suspension: a payload whose record is absent is marked
\* consumed and the loop takes the next one.
RECURSIVE worker_get(_, _, _, _)
worker_get(task, q, u, js) ==
    IF q = << >>
    THEN [ task |-> [task EXCEPT !.state = "get", !.job_id = 0],
           q |-> q, u |-> u, js |-> js ]
    ELSE LET payload == Head(q)
             rest == get_nowait(q)
             job_id == payload.job_id
         IN IF job_id \notin DOMAIN js
            THEN LET td == task_done(u)
                 IN IF td.raised
                    THEN [ task |-> ended(task), q |-> rest, u |-> u,
                           js |-> js ]
                    ELSE worker_get(task, rest, td.unfinished, js)
            ELSE [ task |-> [task EXCEPT !.state = "scrape", !.job_id = job_id],
                   q |-> rest, u |-> u,
                   js |-> [js EXCEPT ![job_id] =
                             [@ EXCEPT !.status = "running",
                                       !.startedAt = now_iso,
                                       !.assignedWorker = task.index,
                                       !.queueSizeWhenStarted = qsize(rest)]] ]

\* record_outcome without the clause for CancelledError: a cancellation is
\* recorded like any other exception, whose str() is empty.
record_outcome_CancelAsFailed(record, outcome) ==
    CASE outcome.kind \in {"cancel", "raise"} ->
           [record EXCEPT !.status = "failed",
                          !.error = IF outcome.kind = "cancel"
                                    THEN "" ELSE outcome.value,
                          !.finishedAt = now_iso]
      [] outcome.kind = "return" ->
           [record EXCEPT !.result = outcome.value,
                          !.status = "succeeded",
                          !.error = NoneStr,
                          !.finishedAt = now_iso]

\* record_outcome whose failure clause also stores the exception as result.
record_outcome_FailedWithResult(record, outcome) ==
    CASE outcome.kind = "cancel" ->
           [record EXCEPT !.status = "cancelled",
                          !.error = "Worker stopped during execution",
                          !.finishedAt = now_iso]
      [] outcome.kind = "raise" ->
           [record EXCEPT !.result = outcome.value,
                          !.status = "failed",
                          !.error = outcome.value,
                          !.finishedAt = now_iso]
      [] outcome.kind = "return" ->
           [record EXCEPT !.result = outcome.value,
                          !.status = "succeeded",
                          !.error = NoneStr,
                          !.finishedAt = now_iso]

\* The except / else clauses of worker_loop: what the outcome of the
\* Extractor writes to the record.
record_outcome(record, outcome) ==
    CASE outcome.kind = "cancel" ->
           [record EXCEPT !.status = "cancelled",
                          !.error = "Worker stopped during execution",
                          !.finishedAt = now_iso]
      [] outcome.kind = "raise" ->
           [record EXCEPT !.status = "failed",
                          !.error = outcome.value,
                          !.finishedAt = now_iso]
      [] outcome.kind = "return" ->
           [record EXCEPT !.result = outcome.value,
                          !.status = "succeeded",
                          !.error = NoneStr,
                          !.finishedAt = now_iso]

\* The finally clause of worker_loop up to task_done.
record_finally(record) ==
    LET timed == IF record.startedAt # NoneInt /\ record.finishedAt # NoneInt
                 THEN [record EXCEPT !.durationSeconds =
                                         round3(record.finishedAt - record.startedAt)]
                 ELSE record
    IN [timed EXCEPT !.lastUpdated = now_iso]

\* worker_loop from the return of the Extractor to the next suspension (or to
\* the end of the task).  The record is written through the reference the
\* worker holds; `finally` also runs when the except clause re-raises.
worker_finish(task, outcome, q, u, js, hist) ==
    LET job_id == task.job_id
        held == IF job_id \in DOMAIN js THEN js[job_id] ELSE NoRecord
        record == record_finally(record_outcome(held, outcome))
        td1 == IF outcome.kind = "cancel"
               THEN task_done(u)
               ELSE [raised |-> FALSE, unfinished |-> u]
        td2 == task_done(td1.unfinished)
        calls == IF outcome.kind = "cancel" THEN 2 ELSE 1
        js2 == IF job_id \in DOMAIN js THEN [js EXCEPT ![job_id] = record] ELSE js
        pruned == _prune_history(js2, hist)
        raised == IF td2.raised \/ td1.raised THEN "ValueError"
                  ELSE IF outcome.kind = "cancel" THEN "CancelledError"
                  ELSE "none"
        exit == [ job_id |-> job_id, record |-> record,
                  task_done_calls |-> calls, raised |-> raised ]
    IN IF td2.raised
       THEN [ task |-> ended(task),
              q |-> q, u |-> td2.unfinished, js |-> js2, hist |-> hist,
              prune |-> NoPrune, exit |-> exit ]
       ELSE LET next == IF raised = "none"
                        THEN worker_get(task, q, td2.unfinished, pruned.jobs)
                        ELSE [ task |-> ended(task),
                               q |-> q, u |-> td2.unfinished,
                               js |-> pruned.jobs ]
            IN [ task |-> next.task, q |-> next.q, u |-> next.u,
                 js |-> next.js, hist |-> pruned.job_history,
                 prune |-> [ called |-> TRUE, evicted |-> pruned.evicted ],
                 exit |-> exit ]


\* ---- State after import ------------------------------------------------------
Init ==
    /\ MAX_WORKERS \in WorkerCounts
    /\ MAX_HISTORY \in HistoryLimits
    /\ QUEUE_LIMIT \in QueueLimits
    /\ job_queue = << >>
    /\ unfinished_tasks = 0
    /\ jobs = << >>
    /\ job_history = << >>
    /\ workers = << >>
    /\ stopping = FALSE
    /\ now = 0
    /\ nextId = 1
    /\ resp = NoResp
    /\ lastPrune = NoPrune
    /\ lastExit = NoExit

\* ---- POST /api/scrape ----------------------------------------------------------
Reject(code) ==
    /\ resp' = [NoResp EXCEPT !.op = "enqueue_scrape", !.code = code]
    /\ lastPrune' = NoPrune
    /\ lastExit' = NoExit
    /\ UNCHANGED << config, job_queue, unfinished_tasks, jobs, job_history,
                    workers, stopping, now, nextId >>

\* required_missing without the test of the nickname.
required_missing_NoNickname(email, password, exclude) ==
    email = << >> \/ password = << >>

\* `if not email or not password or not exclude`
required_missing(email, password, exclude) ==
    email = << >> \/ password = << >> \/ exclude = << >>

\* enqueue_scrape without the capacity check.
queue_full_Never(pending_jobs) == FALSE

\* queue_full with `>` in place of `>=`.
queue_full_Strict(pending_jobs) ==
    QUEUE_LIMIT # 0 /\ pending_jobs > QUEUE_LIMIT

\* `if QUEUE_LIMIT and pending_jobs >= QUEUE_LIMIT`
queue_full(pending_jobs) ==
    QUEUE_LIMIT # 0 /\ pending_jobs >= QUEUE_LIMIT

\* An id derived from the length of history: repeats once history is pruned.
new_job_id_Reused == Len(job_history) + 1

\* uuid.uuid4().hex: an id no earlier job has.
new_job_id == nextId

enqueue_scrape(payload_email, payload_password, payload_excludeNickname) ==
    LET email == strip(OrEmpty(payload_email))
        password == OrEmpty(payload_password)
        exclude == strip(OrEmpty(payload_excludeNickname))
        pending_jobs == qsize(job_queue)
        job_id == new_job_id
        submitted_at == now_iso
        created == (job_id :> NewRecord(submitted_at, pending_jobs)) @@ jobs
        pruned == _prune_history(created, Append(job_history, job_id))
        queue == put(job_queue, JobPayload(job_id, email, password, exclude))
    IN IF required_missing(email, password, exclude)
       THEN Reject(422)
       ELSE IF queue_full(pending_jobs)
       THEN Reject(429)
       ELSE /\ nextId <= MaxJobs
            /\ nextId' = nextId + 1
            /\ jobs' = pruned.jobs
            /\ job_history' = pruned.job_history
            /\ job_queue' = queue
            /\ unfinished_tasks' = unfinished_tasks + 1
            /\ resp' = [ op |-> "enqueue_scrape", code |-> 200,
                         jobId |-> job_id, status |-> "queued",
                         submittedAt |-> submitted_at,
                         queueSize |-> qsize(queue),
                         maxConcurrency |-> MAX_WORKERS ]
            /\ lastPrune' = [ called |-> TRUE, evicted |-> pruned.evicted ]
            /\ lastExit' = NoExit
            /\ UNCHANGED << config, workers, stopping, now >>

\* ---- worker_loop -----------------------------------------------------------------
\* `await job_queue.get()` returns a payload.
WorkerGet(i) ==
    /\ i \in DOMAIN workers
    /\ workers[i].state = "get"
    /\ ~workers[i].must_cancel
    /\ job_queue # << >>
    /\ LET got == worker_get(workers[i], job_queue, unfinished_tasks, jobs)
       IN /\ workers' = [workers EXCEPT ![i] = got.task]
          /\ job_queue' = got.q
          /\ unfinished_tasks' = got.u
          /\ jobs' = got.js
    /\ resp' = NoResp
    /\ lastPrune' = NoPrune
    /\ lastExit' = NoExit
    /\ UNCHANGED << config, job_history, stopping, now, nextId >>

\* WorkerGetCancelled with `continue` in place of `break`: the loop takes the
\* cancellation and waits for the next payload.
WorkerGetCancelled_Continue(i) ==
    /\ i \in DOMAIN workers
    /\ workers[i].state = "get"
    /\ workers[i].must_cancel
    /\ workers' = [workers EXCEPT ![i] = [@ EXCEPT !.must_cancel = FALSE]]
    /\ resp' = NoResp
    /\ lastPrune' = NoPrune
    /\ lastExit' = NoExit
    /\ UNCHANGED << config, job_queue, unfinished_tasks, jobs, job_history,
                    stopping, now, nextId >>

\* `await job_queue.get()` raises CancelledError: the loop breaks.
WorkerGetCancelled(i) ==
    /\ i \in DOMAIN workers
    /\ workers[i].state = "get"
    /\ workers[i].must_cancel
    /\ workers' = [workers EXCEPT ![i] = ended(workers[i])]
    /\ resp' = NoResp
    /\ lastPrune' = NoPrune
    /\ lastExit' = NoExit
    /\ UNCHANGED << config, job_queue, unfinished_tasks, jobs, job_history,
                    stopping, now, nextId >>

WorkerLeave(i, outcome) ==
    LET left == worker_finish(workers[i], outcome, job_queue, unfinished_tasks,
                              jobs, job_history)
    IN /\ workers' = [workers EXCEPT ![i] = left.task]
       /\ job_queue' = left.q
       /\ unfinished_tasks' = left.u
       /\ jobs' = left.js
       /\ job_history' = left.hist
       /\ lastPrune' = left.prune
       /\ lastExit' = left.exit
       /\ resp' = NoResp
       /\ UNCHANGED << config, stopping, now, nextId >>

\* `await scrape_as_json(...)` returns a value or raises an ordinary error.
WorkerScrapeDone(i, outcome) ==
    /\ i \in DOMAIN workers
    /\ workers[i].state = "scrape"
    /\ ~workers[i].must_cancel
    /\ WorkerLeave(i, outcome)

\* `await scrape_as_json(...)` raises CancelledError: the task was cancelled
\* and the Extractor surfaces the cancellation.
WorkerScrapeCancelled(i) ==
    /\ i \in DOMAIN workers
    /\ workers[i].state = "scrape"
    /\ workers[i].must_cancel
    /\ WorkerLeave(i, [kind |-> "cancel", value |-> NoneStr])

Outcomes ==
    [kind : {"return"}, value : ExtractorResults]
        \cup [kind : {"raise"}, value : ExtractorFailures]

\* ---- start-up and shutdown -------------------------------------------------------
\* start_workers without `if workers: return`.
start_workers_Always ==
    /\ workers' = workers \o [index \in 1..MAX_WORKERS |-> NewTask(index)]
    /\ resp' = NoResp
    /\ lastPrune' = NoPrune
    /\ lastExit' = NoExit
    /\ UNCHANGED << config, job_queue, unfinished_tasks, jobs, job_history,
                    stopping, now, nextId >>

start_workers ==
    /\ workers' = IF workers # << >>
                  THEN workers
                  ELSE [index \in 1..MAX_WORKERS |-> NewTask(index)]
    /\ resp' = NoResp
    /\ lastPrune' = NoPrune
    /\ lastExit' = NoExit
    /\ UNCHANGED << config, job_queue, unfinished_tasks, jobs, job_history,
                    stopping, now, nextId >>

\* Task.cancel(): a task that has ended is left alone.
cancel(task) ==
    IF task.state = "done" THEN task ELSE [task EXCEPT !.must_cancel = TRUE]

\* stop_workers up to `await asyncio.gather(...)`; with no workers it runs to
\* its end.
stop_workers ==
    /\ ~stopping
    /\ workers' = [i \in DOMAIN workers |-> cancel(workers[i])]
    /\ stopping' = (workers # << >>)
    /\ resp' = NoResp
    /\ lastPrune' = NoPrune
    /\ lastExit' = NoExit
    /\ UNCHANGED << config, job_queue, unfinished_tasks, jobs, job_history,
                    now, nextId >>

\* stop_workers that clears the worker list without waiting for the tasks.
stop_workers_gathered_NoWait ==
    /\ stopping
    /\ workers' = << >>
    /\ stopping' = FALSE
    /\ resp' = NoResp
    /\ lastPrune' = NoPrune
    /\ lastExit' = NoExit
    /\ UNCHANGED << config, job_queue, unfinished_tasks, jobs, job_history,
                    now, nextId >>

\* gather returns once every worker task has ended; workers.clear().
stop_workers_gathered ==
    /\ stopping
    /\ \A i \in DOMAIN workers : workers[i].state = "done"
    /\ workers' = << >>
    /\ stopping' = FALSE
    /\ resp' = NoResp
    /\ lastPrune' = NoPrune
    /\ lastExit' = NoExit
    /\ UNCHANGED << config, job_queue, unfinished_tasks, jobs, job_history,
                    now, nextId >>

Next ==
    \/ \E r \in Requests : enqueue_scrape(r[1], r[2], r[3])
    \/ \E i \in DOMAIN workers : WorkerGet(i)
    \/ \E i \in DOMAIN workers : WorkerGetCancelled(i)
    \/ \E i \in DOMAIN workers, outcome \in Outcomes : WorkerScrapeDone(i, outcome)
    \/ \E i \in DOMAIN workers : WorkerScrapeCancelled(i)
    \/ start_workers
    \/ stop_workers
    \/ stop_workers_gathered

Spec == Init /\ [][Next]_vars

\* ---- GET /api/system -----------------------------------------------------------------
\* `sum(1 for item in jobs.values() if item.get("status") == status)`
count(js, status) == Cardinality({ j \in DOMAIN js : js[j].status = status })

\* system_status that reports every terminal record as completed.
system_status_AllTerminal ==
    /\ resp' = [ op |-> "system_status", code |-> 200,
                 queueSize |-> qsize(job_queue),
                 running |-> count(jobs, "running"),
                 completed |-> Cardinality({ j \in DOMAIN jobs :
                                               jobs[j].status \in Terminal }),
                 failed |-> count(jobs, "failed"),
                 maxConcurrency |-> MAX_WORKERS ]
    /\ lastPrune' = NoPrune
    /\ lastExit' = NoExit
    /\ UNCHANGED << config, job_queue, unfinished_tasks, jobs, job_history,
                    workers, stopping, now, nextId >>

\* The handler has no suspension point: it is one step.
system_status ==
    /\ resp' = [ op |-> "system_status", code |-> 200,
                 queueSize |-> qsize(job_queue),
                 running |-> count(jobs, "running"),
                 completed |-> count(jobs, "succeeded"),
                 failed |-> count(jobs, "failed"),
                 maxConcurrency |-> MAX_WORKERS ]
    /\ lastPrune' = NoPrune
    /\ lastExit' = NoExit
    /\ UNCHANGED << config, job_queue, unfinished_tasks, jobs, job_history,
                    workers, stopping, now, nextId >>

\* The service with System Status called at any moment; every submission is
\* a valid one.
NextStatus ==
    \/ enqueue_scrape(Email, Password, Nickname)
    \/ \E i \in DOMAIN workers : WorkerGet(i)
    \/ \E i \in DOMAIN workers : WorkerGetCancelled(i)
    \/ \E i \in DOMAIN workers, outcome \in Outcomes : WorkerScrapeDone(i, outcome)
    \/ \E i \in DOMAIN workers : WorkerScrapeCancelled(i)
    \/ start_workers
    \/ stop_workers
    \/ stop_workers_gathered
    \/ system_status

SpecStatus == Init /\ [][NextStatus]_vars

\* ---- GET /api/jobs/{job_id} -----------------------------------------------------------
\* The job ids a Status Query asks for.
JobIds == 1..MaxJobs

\* `{key: value for key, value in record.items() if value is not None}`
snapshot(record) ==
    LET text == {"status", "result", "error"}
        is_none(k) == IF k \in text THEN record[k] = NoneStr
                                    ELSE record[k] = NoneInt
    IN [ key \in { k \in DOMAIN record : ~is_none(k) } |-> record[key] ]

\* The handler has no suspension point: it is one step.
get_job(job_id) ==
    /\ resp' = IF job_id \notin DOMAIN jobs
               THEN [ op |-> "get_job", code |-> 404, jobId |-> job_id ]
               ELSE [ op |-> "get_job", code |-> 200, jobId |-> job_id,
                      snapshot |-> snapshot(jobs[job_id]),
                      queueSize |-> qsize(job_queue) ]
    /\ lastPrune' = NoPrune
    /\ lastExit' = NoExit
    /\ UNCHANGED << config, job_queue, unfinished_tasks, jobs, job_history,
                    workers, stopping, now, nextId >>

\* The service with a client that submits one valid job at a time, the next
\* one only when every job in the Store is terminal, and that asks for the
\* status of any job at any moment.
NextSequential ==
    \/ /\ \A j \in DOMAIN jobs : jobs[j].status \in Terminal
       /\ enqueue_scrape(Email, Password, Nickname)
    \/ \E i \in DOMAIN workers : WorkerGet(i)
    \/ \E i \in DOMAIN workers : WorkerGetCancelled(i)
    \/ \E i \in DOMAIN workers, outcome \in Outcomes : WorkerScrapeDone(i, outcome)
    \/ \E i \in DOMAIN workers : WorkerScrapeCancelled(i)
    \/ start_workers
    \/ stop_workers
    \/ stop_workers_gathered
    \/ \E job_id \in JobIds : get_job(job_id)

SpecSequential == Init /\ [][NextSequential]_vars

\* ---- scheduling ---------------------------------------------------------------------
\* The identities a worker task can have.
WorkerIds == UNION { 1..n : n \in WorkerCounts }

\* The event loop runs every callback that is ready: a task that was
\* cancelled is resumed with CancelledError (the Extractor lets it through),
\* and stop_workers is resumed when gather has every task ended.  Nothing
\* is assumed about submissions, results of the Extractor, start-up or the
\* start of a shutdown.
Fairness ==
    /\ \A i \in WorkerIds :
          /\ WF_vars(WorkerGetCancelled(i))
          /\ WF_vars(WorkerScrapeCancelled(i))
    /\ WF_vars(stop_workers_gathered)

\* The service under the scheduler: history is never pruned, the queue is
\* not limited, every submission is a valid one and one submission fewer is
\* accepted than under Spec.
InitFair ==
    /\ Init
    /\ MAX_HISTORY = 0
    /\ QUEUE_LIMIT = 0

NextFair ==
    \/ nextId < MaxJobs /\ enqueue_scrape(Email, Password, Nickname)
    \/ \E i \in DOMAIN workers : WorkerGet(i)
    \/ \E i \in DOMAIN workers : WorkerGetCancelled(i)
    \/ \E i \in DOMAIN workers, outcome \in Outcomes : WorkerScrapeDone(i, outcome)
    \/ \E i \in DOMAIN workers : WorkerScrapeCancelled(i)
    \/ start_workers
    \/ stop_workers
    \/ stop_workers_gathered

SpecFair == InitFair /\ [][NextFair]_vars /\ Fairness

\* A worker task that waits is resumed when a payload is there, and every
\* Extractor call eventually returns (or raises); together with the steps
\* of a shutdown in Fairness.
FairnessLive ==
    /\ Fairness
    /\ \A i \in WorkerIds :
          /\ WF_vars(WorkerGet(i))
          /\ WF_vars(\E outcome \in Outcomes : WorkerScrapeDone(i, outcome))

\* The service under the scheduler with as many submissions as under Spec.
NextLive ==
    \/ enqueue_scrape(Email, Password, Nickname)
    \/ \E i \in DOMAIN workers : WorkerGet(i)
    \/ \E i \in DOMAIN workers : WorkerGetCancelled(i)
    \/ \E i \in DOMAIN workers, outcome \in Outcomes : WorkerScrapeDone(i, outcome)
    \/ \E i \in DOMAIN workers : WorkerScrapeCancelled(i)
    \/ start_workers
    \/ stop_workers
    \/ stop_workers_gathered

SpecLive == InitFair /\ [][NextLive]_vars /\ FairnessLive

\* ---- the clock ---------------------------------------------------------------------
\* What datetime.now() is seen to return, in microseconds (the resolution of
\* datetime) since the service was imported.
ClockReadings == {0, 400, 800}

\* The clock moves on between two steps of the event loop; it never goes back.
Tick ==
    /\ \E reading \in ClockReadings :
          /\ reading > now
          /\ now' = reading
    /\ resp' = NoResp
    /\ lastPrune' = NoPrune
    /\ lastExit' = NoExit
    /\ UNCHANGED << config, job_queue, unfinished_tasks, jobs, job_history,
                    workers, stopping, nextId >>

\* The service with its clock running: history is never pruned and the queue
\* is not limited, as under the default configuration with a few jobs.
InitClock ==
    /\ Init
    /\ MAX_HISTORY = 0
    /\ QUEUE_LIMIT = 0

\* Every submission is a valid one, and one submission fewer is accepted
\* than under Spec.
NextClock ==
    \/ nextId < MaxJobs /\ enqueue_scrape(Email, Password, Nickname)
    \/ \E i \in DOMAIN workers : WorkerGet(i)
    \/ \E i \in DOMAIN workers : WorkerGetCancelled(i)
    \/ \E i \in DOMAIN workers, outcome \in Outcomes : WorkerScrapeDone(i, outcome)
    \/ \E i \in DOMAIN workers : WorkerScrapeCancelled(i)
    \/ start_workers
    \/ stop_workers
    \/ stop_workers_gathered
    \/ Tick

SpecClock == InitClock /\ [][NextClock]_vars



\* ---- Properties ----------------------------------------------------------------------
Running == { j \in DOMAIN jobs : jobs[j].status = "running" }
Queued == { j \in DOMAIN jobs : jobs[j].status = "queued" }
TerminalJobs == { j \in DOMAIN jobs : jobs[j].status \in Terminal }

\* The job a step of a worker has just left, if any.
LeftJob == lastExit.job_id

\* C1: at no time are more than MAX_WORKERS records `running`, and while
\* MAX_WORKERS records are running a queued job leaves `queued` only in a step
\* in which one of the running jobs becomes terminal (or, being terminal, is
\* pruned).
C1_AtMostNRunning ==
    /\ [](Cardinality(Running) <= MAX_WORKERS)
    /\ [][ \A j \in Queued :
             ( /\ Cardinality(Running) = MAX_WORKERS
               /\ (j \notin DOMAIN jobs' \/ jobs'[j].status # "queued") )
             => \E k \in Running :
                    /\ lastExit'.job_id = k
                    /\ lastExit'.record.status \in Terminal
                    /\ (k \in DOMAIN jobs' => jobs'[k].status \in Terminal) ]_vars

\* C1 witness: every worker is busy and a further job waits in the queue.
C1_Witness ==
    /\ Cardinality(Running) = MAX_WORKERS
    /\ Queued # {}
    /\ job_queue # << >>

\* C2: a record's status moves only queued -> running -> terminal; a terminal
\* record is never written again; a record leaves the Store only when the
\* pruner evicts it, and its id is never used again.
C2_StatusForward ==
    [][ /\ \A j \in DOMAIN jobs \cap DOMAIN jobs' :
             /\ \/ jobs'[j].status = jobs[j].status
                \/ jobs[j].status = "queued" /\ jobs'[j].status = "running"
                \/ jobs[j].status = "running" /\ jobs'[j].status \in Terminal
             /\ jobs[j].status \in Terminal => jobs'[j] = jobs[j]
        /\ \A j \in DOMAIN jobs \ DOMAIN jobs' :
             /\ lastPrune'.called
             /\ \E n \in DOMAIN lastPrune'.evicted :
                    /\ lastPrune'.evicted[n].id = j
                    /\ lastPrune'.evicted[n].status \in Terminal
        /\ \A j \in DOMAIN jobs' \ DOMAIN jobs : j >= nextId ]_vars

\* C2 witness: a terminal record is in the Store while another job is running
\* and a third is queued.
C2_Witness ==
    /\ TerminalJobs # {}
    /\ Running # {}
    /\ Queued # {}

\* The history list the pruner of a step started from.
HistoryBeforePrune ==
    IF nextId' # nextId THEN Append(job_history, nextId) ELSE job_history

\* C3: every record the pruner evicts is terminal when it is evicted, is the
\* first entry of history at that moment, and is evicted while history is
\* longer than MAX_HISTORY (so never when MAX_HISTORY = 0); the entries that
\* remain keep their order; a record that is queued, or running and not
\* finished in the same step, is never removed.
C3_PrunerSafe ==
    /\ [](\A n \in DOMAIN lastPrune.evicted :
             /\ lastPrune.evicted[n].status \in Terminal
             /\ MAX_HISTORY > 0
             /\ lastPrune.evicted[n].length > MAX_HISTORY)
    /\ [][ LET before == HistoryBeforePrune
               k == Len(lastPrune'.evicted)
           IN /\ k <= Len(before)
              /\ job_history' = SubSeq(before, k + 1, Len(before))
              /\ \A n \in 1..k :
                     /\ lastPrune'.evicted[n].id = before[n]
                     /\ lastPrune'.evicted[n].length = Len(before) - n + 1
              /\ DOMAIN jobs \ DOMAIN jobs' = { before[n] : n \in 1..k }
              /\ \A j \in DOMAIN jobs \ DOMAIN jobs' :
                     /\ jobs[j].status # "queued"
                     /\ jobs[j].status = "running" => lastExit'.job_id = j ]_vars

\* C3 witness: the pruner has evicted the oldest record and stopped at an
\* active one with history still longer than MAX_HISTORY.
C3_Witness ==
    /\ lastPrune.evicted # << >>
    /\ Len(job_history) > MAX_HISTORY
    /\ jobs[job_history[1]].status \in Active

\* The task that runs job j, if it has been asked to cancel.
CancelledWhileRunning(j) ==
    \E i \in DOMAIN workers :
        /\ workers[i].state = "scrape"
        /\ workers[i].job_id = j
        /\ workers[i].must_cancel

\* C4: while stop_workers waits, every running job belongs to a task that was
\* told to cancel; such a job stays running until its task leaves it, and then
\* its record is `cancelled` with a non-empty error; once stop_workers has
\* cleared the worker list no record is `running`.
C4_ShutdownCancelsRunning ==
    /\ [](stopping => \A j \in Running : CancelledWhileRunning(j))
    /\ [](workers = << >> => Running = {})
    /\ [][ \A j \in Running :
             CancelledWhileRunning(j) =>
                \/ j \in DOMAIN jobs' /\ jobs'[j] = jobs[j]
                \/ /\ lastExit'.job_id = j
                   /\ lastExit'.record.status = "cancelled"
                   /\ lastExit'.record.error \notin {NoneStr, ""}
                   /\ j \in DOMAIN jobs' => jobs'[j] = lastExit'.record ]_vars

\* C4 witness: shutdown has completed after it cancelled a running job, whose
\* record is still in the Store.
C4_Witness ==
    /\ workers = << >>
    /\ ~stopping
    /\ \E j \in DOMAIN jobs :
           /\ jobs[j].status = "cancelled"
           /\ jobs[j].error = "Worker stopped during execution"

StoreUnchanged == UNCHANGED << jobs, job_history, job_queue, unfinished_tasks >>

\* A request field that is given and not blank.
Given(text) == text # NoneText /\ strip(text) # << >>

\* The requests with every field given.
GivenRequests ==
    { r \in Requests : Given(r[1]) /\ Given(r[2]) /\ Given(r[3]) }

\* C5: with QUEUE_LIMIT > 0, a submission (with its fields given) that finds
\* QUEUE_LIMIT or more payloads queued is answered 429 and leaves the Store,
\* the history and the queue as they were (no step is such a submission with
\* another outcome); with QUEUE_LIMIT = 0 no submission is answered 429.
C5_CapacityReject ==
    /\ [](QUEUE_LIMIT = 0 => resp.code # 429)
    /\ [][ ( /\ QUEUE_LIMIT > 0
               /\ qsize(job_queue) >= QUEUE_LIMIT
               /\ resp'.op = "enqueue_scrape"
               /\ ~(resp'.code = 429 /\ StoreUnchanged) )
             => \A r \in GivenRequests :
                    ~enqueue_scrape(r[1], r[2], r[3]) ]_vars

\* C5 witness: a submission has just been turned away with the queue at its
\* limit.
C5_Witness ==
    /\ resp.code = 429
    /\ QUEUE_LIMIT > 0
    /\ qsize(job_queue) >= QUEUE_LIMIT


\* A request field that is missing or blank (empty or only whitespace).
Blank(text) == text = NoneText \/ strip(text) = << >>

\* A request field that is missing or empty.
Empty(text) == text = NoneText \/ text = << >>

\* The requests C6 speaks of, with `blank` read for all three fields ...
BlankRequests ==
    { r \in Requests : Blank(r[1]) \/ Blank(r[2]) \/ Blank(r[3]) }

\* ... and with the password only required to be non-empty.
MissingRequests ==
    { r \in Requests : Blank(r[1]) \/ Empty(r[2]) \/ Blank(r[3]) }

\* C6 as claimed: a submission whose email, password or excludeNickname is
\* missing or blank is answered 422 and leaves the Store, the history and the
\* queue as they were (no step is such a submission with another outcome).
C6_BlankRejected_AsClaimed ==
    [][ ( resp'.op = "enqueue_scrape" /\ ~(resp'.code = 422 /\ StoreUnchanged) )
          => \A r \in BlankRequests : ~enqueue_scrape(r[1], r[2], r[3]) ]_vars

\* C6 amended: a submission whose email or excludeNickname is missing or
\* blank, or whose password is missing or empty, is answered 422 and leaves
\* the Store, the history and the queue as they were; a password of
\* whitespace only is not a reason for a 422 (no step is a submission with
\* an outcome other than these).
C6_MissingRejected ==
    [][ resp'.op = "enqueue_scrape" =>
          IF resp'.code = 422 /\ StoreUnchanged
          THEN \A r \in Requests \ MissingRequests :
                  ~enqueue_scrape(r[1], r[2], r[3])
          ELSE \A r \in MissingRequests :
                  ~enqueue_scrape(r[1], r[2], r[3]) ]_vars

\* C6 witness: a submission has just been answered 422 while earlier jobs are
\* in the Store and in the queue.
C6_Witness ==
    /\ resp.op = "enqueue_scrape"
    /\ resp.code = 422
    /\ job_queue # << >>
    /\ Running # {}

Occurrences(seq, x) == Cardinality({ n \in DOMAIN seq : seq[n] = x })

\* C7: a submission answered 200 that found d payloads queued has created
\* one record, new to the Store, `queued` with queueSizeOnEnqueue = d; its id
\* is the last entry of history and occurs there once; the queue is the old
\* queue with one payload for that id appended; the receipt says `queued`,
\* queueSize = d + 1 and maxConcurrency = MAX_WORKERS; no other record is
\* written.
C7_AcceptedSubmission ==
    [][ (resp'.op = "enqueue_scrape" /\ resp'.code = 200) =>
          LET d == qsize(job_queue)
              id == resp'.jobId
          IN /\ id \notin DOMAIN jobs
             /\ DOMAIN jobs' \ DOMAIN jobs = {id}
             /\ jobs'[id].status = "queued"
             /\ jobs'[id].queueSizeOnEnqueue = d
             /\ job_history' # << >>
             /\ job_history'[Len(job_history')] = id
             /\ Occurrences(job_history', id) = 1
             /\ qsize(job_queue') = d + 1
             /\ SubSeq(job_queue', 1, d) = job_queue
             /\ job_queue'[d + 1].job_id = id
             /\ resp'.status = "queued"
             /\ resp'.queueSize = d + 1
             /\ resp'.maxConcurrency = MAX_WORKERS
             /\ \A j \in DOMAIN jobs \cap DOMAIN jobs' : jobs'[j] = jobs[j] ]_vars

\* C7 witness: a submission was accepted behind a waiting payload while a
\* worker was running an earlier job.
C7_Witness ==
    /\ resp.code = 200
    /\ resp.queueSize = 2
    /\ Running # {}

\* C8 as claimed: with MAX_HISTORY > 0 the Store never holds more than
\* MAX_HISTORY terminal records.
C8_TerminalBounded_AsClaimed ==
    MAX_HISTORY > 0 => Cardinality(TerminalJobs) <= MAX_HISTORY

\* C8 amended: with MAX_HISTORY > 0, when the pruner has run, the Store and
\* the history hold more than MAX_HISTORY entries only if the oldest entry of
\* history is a record that is still queued or running.
C8_PrunedOrBlocked ==
    (MAX_HISTORY > 0 /\ lastPrune.called) =>
        \/ Len(job_history) <= MAX_HISTORY /\ Cardinality(DOMAIN jobs) <= MAX_HISTORY
        \/ /\ job_history[1] \in DOMAIN jobs
           /\ jobs[job_history[1]].status \in Active

\* C8 witness: the pruner has run and more than MAX_HISTORY terminal records
\* remain behind an active oldest record.
C8_Witness ==
    /\ MAX_HISTORY > 0
    /\ lastPrune.called
    /\ Cardinality(TerminalJobs) > MAX_HISTORY
    /\ jobs[job_history[1]].status \in Active

\* Payloads ever pushed, payloads dequeued, and successful task_done calls.
Pushed == nextId - 1
Dequeued == Pushed - qsize(job_queue)
ConsumedMarks == Pushed - unfinished_tasks

\* C9: a worker that leaves a job has called task_done once for its payload,
\* and there are never more consumed marks than dequeued payloads.
C9_ConsumedOnce ==
    /\ LeftJob # 0 => lastExit.task_done_calls = 1
    /\ ConsumedMarks <= Dequeued

\* C10: a worker that leaves a job has set finishedAt and lastUpdated on the
\* record and has run the pruner.
C10_ExitSetsTimesAndPrunes ==
    LeftJob # 0 =>
        /\ lastExit.record.finishedAt # NoneInt
        /\ lastExit.record.lastUpdated # NoneInt
        /\ lastPrune.called

\* The timestamps of a record.
Times(record) ==
    << record.submittedAt, record.startedAt, record.finishedAt >>

\* C11 as claimed: every terminal record has finishedAt >= startedAt >=
\* submittedAt and durationSeconds = finishedAt - startedAt.
C11_DurationExact_AsClaimed ==
    \A j \in TerminalJobs :
        /\ jobs[j].finishedAt >= jobs[j].startedAt
        /\ jobs[j].startedAt >= jobs[j].submittedAt
        /\ jobs[j].durationSeconds = jobs[j].finishedAt - jobs[j].startedAt

\* C11 amended: every terminal record has its three timestamps set, with
\* finishedAt >= startedAt >= submittedAt >= 0, and durationSeconds is
\* finishedAt - startedAt rounded to the millisecond (a whole number of
\* milliseconds at most half a millisecond away); a queued record has only
\* submittedAt, a running one only submittedAt and startedAt; a timestamp
\* that is set is never written again.
C11_TimesOrderedOnce ==
    /\ [](\A j \in DOMAIN jobs :
             LET r == jobs[j]
             IN /\ r.submittedAt # NoneInt
                /\ r.submittedAt >= 0
                /\ r.status = "queued" =>
                       r.startedAt = NoneInt /\ r.finishedAt = NoneInt
                /\ r.status = "running" =>
                       r.startedAt # NoneInt /\ r.finishedAt = NoneInt
                /\ r.status \in Terminal =>
                       /\ r.startedAt # NoneInt
                       /\ r.finishedAt >= r.startedAt
                       /\ r.startedAt >= r.submittedAt
                       /\ r.durationSeconds % 1000 = 0
                       /\ 2 * (r.durationSeconds - (r.finishedAt - r.startedAt)) <= 1000
                       /\ 2 * ((r.finishedAt - r.startedAt) - r.durationSeconds) <= 1000)
    /\ [][ \A j \in DOMAIN jobs \cap DOMAIN jobs' :
             \A n \in 1..3 :
                Times(jobs[j])[n] # NoneInt =>
                    Times(jobs'[j])[n] = Times(jobs[j])[n] ]_vars

\* C11 witness: a terminal record that waited and then ran while the clock
\* advanced, and whose durationSeconds is not finishedAt - startedAt.
C11_Witness ==
    \E j \in TerminalJobs :
        /\ jobs[j].startedAt > jobs[j].submittedAt
        /\ jobs[j].finishedAt > jobs[j].startedAt
        /\ jobs[j].durationSeconds # jobs[j].finishedAt - jobs[j].startedAt

\* The Extractor call of worker i raises an error with message m.
ExtractorFails(i, m) == WorkerScrapeDone(i, [kind |-> "raise", value |-> m])

\* C12: in every record result and error are never both present; both are
\* absent while the record is queued or running; result is present only in
\* a succeeded record and error only in a failed or cancelled one; a step in
\* which the Extractor call of a job raises an error with message m leaves
\* the job's record failed with error = m and no result.
C12_ResultXorError ==
    /\ [](\A j \in DOMAIN jobs :
             LET r == jobs[j]
             IN /\ ~(r.result # NoneStr /\ r.error # NoneStr)
                /\ r.status \in Active => r.result = NoneStr /\ r.error = NoneStr
                /\ r.result # NoneStr => r.status = "succeeded"
                /\ r.error # NoneStr => r.status \in {"failed", "cancelled"})
    /\ [][ \A i \in DOMAIN workers :
             workers[i].state = "scrape" =>
                \A m \in ExtractorFailures :
                    \/ /\ lastExit'.job_id = workers[i].job_id
                       /\ lastExit'.record.status = "failed"
                       /\ lastExit'.record.error = m
                       /\ lastExit'.record.result = NoneStr
                       /\ workers[i].job_id \in DOMAIN jobs' =>
                              jobs'[workers[i].job_id] = lastExit'.record
                    \/ ~ExtractorFails(i, m) ]_vars

\* C12 witness: a failed record with the message of the Extractor next to a
\* succeeded record with a result, while a third job is running.
C12_Witness ==
    /\ \E j \in DOMAIN jobs :
           /\ jobs[j].status = "failed"
           /\ jobs[j].error \in ExtractorFailures
           /\ jobs[j].result = NoneStr
    /\ \E j \in DOMAIN jobs :
           /\ jobs[j].status = "succeeded"
           /\ jobs[j].result \in ExtractorResults
           /\ jobs[j].error = NoneStr
    /\ Running # {}

\* The worker tasks that are inside the Extractor call of job j.
Claimers(j) ==
    { i \in DOMAIN workers :
        workers[i].state = "scrape" /\ workers[i].job_id = j }

\* The payloads of job j in the queue.
Payloads(q, j) == { n \in DOMAIN q : q[n].job_id = j }

\* C13: a queued job has one payload in the queue, no worker and no
\* assignedWorker; a running job has no payload left in the queue and is
\* inside the Extractor call of exactly one worker task, whose identity (in
\* 1..MAX_WORKERS) is its assignedWorker; a terminal job has no payload in
\* the queue and no worker; no task that has ended or waits holds a job;
\* assignedWorker is written only in the step in which a queued job, held by
\* no worker, becomes running and its payload leaves the queue, and never
\* changes afterwards.
C13_ClaimedOnce ==
    /\ [](\A j \in DOMAIN jobs :
             LET r == jobs[j]
             IN /\ r.status = "queued" =>
                       /\ Cardinality(Payloads(job_queue, j)) = 1
                       /\ Claimers(j) = {}
                       /\ r.assignedWorker = NoneInt
                /\ r.status = "running" =>
                       /\ Payloads(job_queue, j) = {}
                       /\ Claimers(j) = {r.assignedWorker}
                       /\ r.assignedWorker \in 1..MAX_WORKERS
                /\ r.status \in Terminal =>
                       /\ Payloads(job_queue, j) = {}
                       /\ Claimers(j) = {}
                       /\ r.assignedWorker \in 1..MAX_WORKERS)
    /\ [](\A i \in DOMAIN workers :
             /\ workers[i].index = i
             /\ workers[i].state # "scrape" => workers[i].job_id = 0)
    /\ [][ \A j \in DOMAIN jobs \cap DOMAIN jobs' :
             \/ jobs'[j].assignedWorker = jobs[j].assignedWorker
             \/ /\ jobs[j].assignedWorker = NoneInt
                /\ jobs[j].status = "queued"
                /\ jobs'[j].status = "running"
                /\ Claimers(j) = {}
                /\ Payloads(job_queue', j) = {} ]_vars

\* C13 witness: two workers are each inside the Extractor call of a
\* different job while a third job waits.
C13_Witness ==
    /\ \E j, k \in Running :
           /\ j # k
           /\ jobs[j].assignedWorker # jobs[k].assignedWorker
    /\ Queued # {}

\* Job ids are handed out in the order of acceptance: job a was accepted
\* before job b exactly when a < b.
AcceptedBefore(a, b) == a < b

\* C14: of two jobs in the Store, the one accepted later has left `queued`
\* only if the one accepted earlier has; and the job that becomes running in
\* a step was accepted before every job that is still queued after it.
C14_DispatchInOrder ==
    /\ [](\A a, b \in DOMAIN jobs :
             (AcceptedBefore(a, b) /\ jobs[b].status # "queued")
                 => jobs[a].status # "queued")
    /\ [][ \A b \in Queued :
             (b \in DOMAIN jobs' /\ jobs'[b].status = "running")
                 => \A a \in DOMAIN jobs' :
                        jobs'[a].status = "queued" => AcceptedBefore(b, a) ]_vars

\* C14 witness: the first of three jobs is finished, the second is running
\* and the third still waits.
C14_Witness ==
    \E a, b, c \in DOMAIN jobs :
        /\ AcceptedBefore(a, b)
        /\ AcceptedBefore(b, c)
        /\ jobs[a].status \in Terminal
        /\ jobs[b].status = "running"
        /\ jobs[c].status = "queued"

\* The worker tasks that have not ended.
LiveWorkers == { i \in DOMAIN workers : workers[i].state # "done" }

\* C15: whenever no shutdown is in progress, the live worker tasks are none
\* or exactly the tasks 1..MAX_WORKERS.
C15_LiveZeroOrN ==
    ~stopping => (LiveWorkers = {} \/ LiveWorkers = 1..MAX_WORKERS)

\* C16: a shutdown that has cancelled the worker tasks eventually returns;
\* until it does, a task that was told to cancel either has not been resumed
\* or has ended (it never goes back to wait for a payload or into another
\* Extractor call); and when stop_workers returns every task has ended and
\* the worker list is empty.
C16_ShutdownReturns ==
    /\ stopping ~> ~stopping
    /\ [][ /\ \A i \in DOMAIN workers :
                workers[i].must_cancel =>
                    /\ i \in DOMAIN workers'
                    /\ \/ workers'[i] = workers[i]
                       \/ workers'[i].state = "done"
           /\ (stopping /\ ~stopping') =>
                  /\ \A i \in DOMAIN workers : workers[i].state = "done"
                  /\ workers' = << >> ]_vars

\* C16 witness: a shutdown has returned after it found one worker inside an
\* Extractor call (its job is cancelled) and a payload still queued.
C16_Witness ==
    /\ ~stopping
    /\ workers = << >>
    /\ job_queue # << >>
    /\ \E j \in DOMAIN jobs : jobs[j].status = "cancelled"

\* C17: a System Status call answers with the number of records that are
\* running, succeeded (as `completed`) and failed in the Store at that
\* moment, with the depth of the queue and with MAX_WORKERS, and leaves the
\* Store, the history, the queue and the workers as they were.
C17_StatusExact ==
    [][ resp'.op = "system_status" =>
          /\ resp'.running = Cardinality(Running)
          /\ resp'.completed =
                 Cardinality({ j \in DOMAIN jobs : jobs[j].status = "succeeded" })
          /\ resp'.failed =
                 Cardinality({ j \in DOMAIN jobs : jobs[j].status = "failed" })
          /\ resp'.queueSize = Len(job_queue)
          /\ resp'.maxConcurrency = MAX_WORKERS
          /\ UNCHANGED << config, job_queue, unfinished_tasks, jobs,
                          job_history, workers, stopping, now, nextId >> ]_vars

\* C17 witness: System Status has answered while one job was running, one
\* had succeeded, one had failed or been cancelled, and a worker was waiting.
C17_Witness ==
    /\ resp.op = "system_status"
    /\ resp.running = 1
    /\ resp.completed = 1
    /\ Cardinality(TerminalJobs) = 2
    /\ \E i \in DOMAIN workers : workers[i].state = "get"

\* The worker task that is inside the Extractor call of job k.
WorkerOf(k) == CHOOSE i \in DOMAIN workers : workers[i].job_id = k

\* Job j is taken from the queue by worker i in this step: the ordinary
\* dispatch of the next payload, which writes nothing but the four fields of
\* a start.
Dispatched(j, i) ==
    /\ jobs[j].status = "queued"
    /\ jobs'[j] = [jobs[j] EXCEPT !.status = "running",
                                   !.startedAt = jobs'[j].startedAt,
                                   !.assignedWorker = i,
                                   !.queueSizeWhenStarted =
                                       jobs'[j].queueSizeWhenStarted]

\* A step in which job k fails or is cancelled leaves every other record
\* that is queued or running in the Store and unchanged (but for the next
\* payload, which the worker of a failed job goes on to take), and leaves
\* every other worker task as it was.
FailureWritesOneRecord ==
    [][ \A k \in Running :
          (lastExit'.job_id = k /\ lastExit'.record.status \in {"failed", "cancelled"})
            => /\ \A j \in DOMAIN jobs \ {k} :
                     jobs[j].status \in Active =>
                        /\ j \in DOMAIN jobs'
                        /\ \/ jobs'[j] = jobs[j]
                           \/ /\ lastExit'.record.status = "failed"
                              /\ Dispatched(j, WorkerOf(k))
               /\ \A i \in DOMAIN workers \ {WorkerOf(k)} :
                     workers'[i] = workers[i] ]_vars

\* C18: a step in which a job fails or is cancelled changes no other active
\* record and no other worker; and a worker keeps processing unless its own
\* job is cancelled: a worker that leaves a job that succeeded or failed is
\* not ended by an exception.
C18_FailureIsLocal ==
    /\ FailureWritesOneRecord
    /\ [](( /\ LeftJob # 0
            /\ lastExit.record.status \in {"succeeded", "failed"} )
              => lastExit.raised = "none")

\* Job j, cancelled by shutdown inside its Extractor call, is left by its
\* worker in this step with the record `cancelled` and the given error.
CancelledWith(j, message) ==
    (CancelledWhileRunning(j) /\ lastExit'.job_id = j)
        => /\ lastExit'.record.status = "cancelled"
           /\ lastExit'.record.error = message
           /\ lastExit'.record.result = NoneStr
           /\ j \in DOMAIN jobs' => jobs'[j] = lastExit'.record

\* C19 as claimed: a job cancelled by shutdown while its Extractor call is in
\* flight ends `cancelled` with error "worker stopped during execution".
C19_CancelledMessage_AsClaimed ==
    [][ \A j \in Running :
          CancelledWith(j, "worker stopped during execution") ]_vars

\* C19 amended: a job cancelled by shutdown while its Extractor call is in
\* flight ends `cancelled` with error "Worker stopped during execution"
\* (capital W) and no result.
C19_CancelledMessage ==
    [][ \A j \in Running :
          CancelledWith(j, "Worker stopped during execution") ]_vars

\* C19 witness: during a shutdown a worker has just left a job that the
\* shutdown cancelled, while the other worker is still inside its call.
C19_Witness ==
    /\ stopping
    /\ LeftJob # 0
    /\ lastExit.record.status = "cancelled"
    /\ lastExit.record.error = "Worker stopped during execution"
    /\ \E j \in Running : CancelledWhileRunning(j)

\* The number of jobs accepted so far, and the ids of the h most recent.
Accepted == nextId - 1
MostRecent(h) == { j \in 1..Accepted : j > Accepted - h }

\* Every accepted job has reached a terminal state (or has been evicted).
AllCompleted == \A j \in DOMAIN jobs : jobs[j].status \in Terminal

\* C20: with jobs submitted and completed one at a time and MAX_HISTORY =
\* H > 0, once the k-th job is terminal the Store and the history hold
\* exactly the min(k, H) most recently submitted jobs, and a Status Query
\* then answers 404 for every earlier job and 200 with a terminal status for
\* each of these.
C20_KeepsMostRecent ==
    /\ []((MAX_HISTORY > 0 /\ AllCompleted) =>
             /\ DOMAIN jobs = MostRecent(MAX_HISTORY)
             /\ { job_history[n] : n \in DOMAIN job_history } = DOMAIN jobs
             /\ Len(job_history) = Cardinality(DOMAIN jobs))
    /\ [][ ( /\ MAX_HISTORY > 0
             /\ AllCompleted
             /\ resp'.op = "get_job" )
           => IF resp'.jobId \in MostRecent(MAX_HISTORY)
              THEN /\ resp'.code = 200
                   /\ resp'.snapshot.status \in Terminal
              ELSE resp'.code = 404 ]_vars

\* C20 witness: with MAX_HISTORY = 2, three jobs have been submitted and
\* completed one after the other, two records remain and the Status Query
\* for the first job has answered 404.
C20_Witness ==
    /\ MAX_HISTORY = 2
    /\ Accepted = 3
    /\ AllCompleted
    /\ Cardinality(DOMAIN jobs) = 2
    /\ resp.op = "get_job"
    /\ resp.jobId = 1
    /\ resp.code = 404

\* C21: with QUEUE_LIMIT > 0 the queue never holds more than QUEUE_LIMIT
\* payloads, and a step that makes the queue longer is an accepted
\* submission that found fewer than QUEUE_LIMIT payloads and added one.
C21_HardLimit ==
    /\ [](QUEUE_LIMIT > 0 => qsize(job_queue) <= QUEUE_LIMIT)
    /\ [][ (QUEUE_LIMIT > 0 /\ qsize(job_queue') > qsize(job_queue)) =>
              /\ qsize(job_queue) < QUEUE_LIMIT
              /\ qsize(job_queue') = qsize(job_queue) + 1
              /\ resp'.op = "enqueue_scrape"
              /\ resp'.code = 200 ]_vars

\* C21 witness: a submission has just filled the queue to its limit while a
\* worker was busy, after an earlier submission had been accepted.
C21_Witness ==
    /\ QUEUE_LIMIT > 0
    /\ qsize(job_queue) = QUEUE_LIMIT
    /\ resp.op = "enqueue_scrape"
    /\ resp.code = 200
    /\ Running # {}

\* The job ids of the payloads in the queue, in order.
QueuedIds == [ n \in DOMAIN job_queue |-> job_queue[n].job_id ]

\* C22: the payloads in the queue are, in order, exactly the records that
\* are queued: every payload names a record in the Store whose status is
\* queued, no id is in the queue twice, and every queued record has its
\* payload in the queue; and a step that takes payloads from the queue takes
\* the first one only and leaves its record running (it is not discarded).
C22_QueueIsQueued ==
    /\ [](/\ \A n \in DOMAIN job_queue :
                /\ QueuedIds[n] \in DOMAIN jobs
                /\ jobs[QueuedIds[n]].status = "queued"
                /\ \A m \in DOMAIN job_queue : QueuedIds[m] = QueuedIds[n] => m = n
          /\ \A j \in Queued : \E n \in DOMAIN job_queue : QueuedIds[n] = j)
    /\ [][ job_queue' # job_queue =>
              \/ /\ job_queue # << >>
                 /\ job_queue' = Tail(job_queue)
                 /\ Head(job_queue).job_id \in DOMAIN jobs'
                 /\ jobs'[Head(job_queue).job_id].status = "running"
              \/ /\ resp'.code = 200
                 /\ Len(job_queue') = Len(job_queue) + 1
                 /\ SubSeq(job_queue', 1, Len(job_queue)) = job_queue ]_vars

\* C22 witness: two records are queued with their two payloads in the queue
\* behind a running job.
C22_Witness ==
    /\ Cardinality(Queued) = 2
    /\ Len(job_queue) = 2
    /\ Cardinality(Running) = 1

\* C23: history lists the keys of the Store, each once, in the order in
\* which the jobs were accepted; so its first entry, which is all the pruner
\* looks at, always has a record.
C23_HistoryIsStore ==
    /\ { job_history[n] : n \in DOMAIN job_history } = DOMAIN jobs
    /\ \A n, m \in DOMAIN job_history :
           n < m => AcceptedBefore(job_history[n], job_history[m])
    /\ job_history # << >> => job_history[1] \in DOMAIN jobs

\* C23 witness: the pruner has evicted the oldest record in this step and at
\* least two later jobs remain in history and in the Store.
C23_Witness ==
    /\ lastPrune.evicted # << >>
    /\ Len(job_history) >= 2
    /\ Cardinality(DOMAIN jobs) = Len(job_history)
    /\ job_history[1] > 1

\* Job j is in the Store and not yet terminal.
Pending(j) == j \in DOMAIN jobs /\ jobs[j].status \in Active

\* Job j has reached a terminal state (and may have been evicted since).
Completed(j) == j < nextId /\ (j \in DOMAIN jobs => jobs[j].status \in Terminal)

\* C24: from any moment at which workers have been started, job j is
\* accepted and not yet terminal, j reaches a terminal state unless a
\* shutdown occurs (this covers a job that a shutdown left queued, after the
\* next start-up); in particular, while workers are started and no shutdown
\* is in progress, a queued job always has a live worker task left to take
\* it.
C24_AcceptedCompletes ==
    /\ \A j \in JobIds :
          (Pending(j) /\ workers # << >> /\ ~stopping)
              ~> (Completed(j) \/ stopping)
    /\ []((Queued # {} /\ workers # << >> /\ ~stopping) => LiveWorkers # {})

====
